---- MODULE Spec2Model ----
(***************************************************************************)
(* The Connect-Four engine (class Connect4 of connect4.py, duplicated in   *)
(* connectk4.py): the board, the gravity drop, the four-direction win      *)
(* detector, the draw query and reset.                                     *)
(*                                                                         *)
(* The engine's fields are the variables board, current, winner,           *)
(* move_count and win_line.  Three history variables record what the last  *)
(* call was and returned (call), the engine's fields just before that      *)
(* call (pre) and the cell written by the most recent accepted drop        *)
(* (placed).  drops counts the accepted drops of the explored run and      *)
(* only bounds the exploration.                                            *)
(*                                                                         *)
(* kgame is the engine of connectk4.py, the copy the graphical front end   *)
(* (class App) owns, with kcall and kpre its last call and its fields      *)
(* before that call.  turns and pc are the console loop's counter and      *)
(* position (connect4.py, __main__).                                       *)
(*                                                                         *)
(* Spec calls the two engine copies directly and in step.  SpecConsole is  *)
(* the console loop on the first copy, SpecApp the clicks and the New Game *)
(* button of App on the second.                                            *)
(***************************************************************************)
EXTENDS Integers, Sequences, FiniteSets, TLC

VARIABLES board, current, winner, move_count, win_line, call, pre, placed, drops,
          kgame, kcall, kpre, turns, pc

vars == <<board, current, winner, move_count, win_line, call, pre, placed, drops,
          kgame, kcall, kpre, turns, pc>>

\* ---------------------------------------------------------------- constants
ROWS == 6
COLS == 7

\* The value of an empty cell.
NoDisc == -1
\* Python's None where the other values are integers (winner, drop's result).
None == -2
\* Python's None where the other values are pairs of cells (win_line).
NoLine == <<>>
\* No cell: nothing has been placed since construction or reset.
NoCell == <<>>

\* ------------------------------------------------------------------- bounds
\* Accepted drops explored after the starting position.
MaxDrops == 3
\* How far outside [0, COLS) the column arguments tried by Drop reach.
OutOfRange == 1

Rows == 0 .. ROWS - 1
Cols == 0 .. COLS - 1
Players == {0, 1}
ColArgs == (0 - OutOfRange) .. (COLS - 1 + OutOfRange)

\* ------------------------------------------------------------ the engine
\* Python list indexing: a negative index counts from the end of the list.
PyIdx(i, n) == IF i < 0 THEN i + n ELSE i

At(b, r, c) == b[PyIdx(r, ROWS)][PyIdx(c, COLS)]

\* The engine's fields as one value.
Game == [board |-> board, current |-> current, winner |-> winner,
         move_count |-> move_count, win_line |-> win_line]

\* Connect4.__init__
Fresh == [board |-> [r \in Rows |-> [c \in Cols |-> NoDisc]],
          current |-> 0, winner |-> None, move_count |-> 0, win_line |-> NoLine]

\* Faulty variant: move_count is not zeroed.
reset_keeps_count(g) ==
    [board |-> [r \in Rows |-> [c \in Cols |-> NoDisc]],
     current |-> 0, winner |-> None, move_count |-> g.move_count,
     win_line |-> NoLine]

\* Faulty variant: win_line is not cleared.
reset_keeps_line(g) ==
    [board |-> [r \in Rows |-> [c \in Cols |-> NoDisc]],
     current |-> 0, winner |-> None, move_count |-> 0, win_line |-> g.win_line]

\* Connect4.reset: every cell emptied in place, the other fields reassigned.
reset(g) == [board |-> [r \in Rows |-> [c \in Cols |-> NoDisc]],
             current |-> 0, winner |-> None, move_count |-> 0, win_line |-> NoLine]

\* Faulty variant: a full board is a draw whoever won.
is_draw_ignores_winner(g) == g.move_count = ROWS * COLS

\* Connect4.is_draw
is_draw(g) == g.winner = None /\ g.move_count = ROWS * COLS

\* Faulty variants of the direction list: the vertical direction tried
\* first, and the fourth direction repeating the third.
DirectionsVerticalFirst == << <<1, 0>>, <<0, 1>>, <<1, 1>>, <<1, -1>> >>
DirectionsNoAntiDiagonal == << <<0, 1>>, <<1, 0>>, <<1, 1>>, <<1, 1>> >>

\* Faulty variant: the third direction repeating the fourth.
DirectionsNoDiagonal == << <<0, 1>>, <<1, 0>>, <<1, -1>>, <<1, -1>> >>

\* The four directions, in the order _winning_span tries them.
Directions == << <<0, 1>>, <<1, 0>>, <<1, 1>>, <<1, -1>> >>

\* The loop of count_and_last: (rr, cc) is the next cell to look at, n the
\* cells counted so far and last the furthest matching cell.
RECURSIVE walk(_, _, _, _, _, _, _, _)
walk(b, player, rr, cc, dr, dc, n, last) ==
    IF /\ 0 <= rr /\ rr < ROWS
       /\ 0 <= cc /\ cc < COLS
       /\ b[rr][cc] = player
    THEN walk(b, player, rr + dr, cc + dc, dr, dc, n + 1, <<rr, cc>>)
    ELSE <<n, last[1], last[2]>>

\* count_and_last(dr, dc) of _winning_span(r, c): <<n, last_r, last_c>>.
count_and_last(b, player, r, c, dr, dc) ==
    walk(b, player, r + dr, c + dc, dr, dc, 0, <<r, c>>)

\* Faulty variant: the placed cell reported as the start of the line.
span_from_placed(r, c, f, bk) == << <<r, c>>, <<f[2], f[3]>> >>

\* What _winning_span returns for a qualifying direction.
span_of(r, c, f, bk) == << <<bk[2], bk[3]>>, <<f[2], f[3]>> >>

\* The for loop of _winning_span, from the i-th direction on.
RECURSIVE span_from(_, _, _, _, _)
span_from(b, player, r, c, i) ==
    IF i > Len(Directions) THEN NoLine
    ELSE LET dr == Directions[i][1]
             dc == Directions[i][2]
             f  == count_and_last(b, player, r, c, dr, dc)
             bk == count_and_last(b, player, r, c, 0 - dr, 0 - dc)
         IN  IF 1 + f[1] + bk[1] >= 4
             THEN span_of(r, c, f, bk)
             ELSE span_from(b, player, r, c, i + 1)

\* Connect4._winning_span
winning_span(b, r, c) ==
    IF At(b, r, c) = NoDisc THEN NoLine
    ELSE span_from(b, At(b, r, c), PyIdx(r, ROWS), PyIdx(c, COLS), 1)

\* Faulty variant: no check that the game is already won.
drop_rejects_unless_won(g, col) ==
    \/ ~(0 <= col /\ col < COLS)
    \/ At(g.board, 0, col) # NoDisc

\* Faulty variant: no check that the column is full.
drop_rejects_unless_full(g, col) ==
    \/ g.winner # None
    \/ ~(0 <= col /\ col < COLS)

\* The two early returns of drop.
drop_rejects(g, col) ==
    \/ g.winner # None
    \/ ~(0 <= col /\ col < COLS)
    \/ At(g.board, 0, col) # NoDisc

\* The while loop of drop.
RECURSIVE scan_row(_, _, _)
scan_row(b, col, row) ==
    IF row >= 0 /\ At(b, row, col) # NoDisc
    THEN scan_row(b, col, row - 1)
    ELSE row

\* Faulty variants: the scan starts at the top row, or one row above the
\* bottom row.
landing_row_from_top(b, col) == scan_row(b, col, 0)
landing_row_above_bottom(b, col) == scan_row(b, col, ROWS - 2)

\* The row drop writes to: the scan starts at the bottom row.
landing_row(b, col) == scan_row(b, col, ROWS - 1)

\* Faulty variant: the disc is written and not counted.
place_uncounted(g, row, col) ==
    [g EXCEPT !.board[PyIdx(row, ROWS)][PyIdx(col, COLS)] = g.current]

\* The disc is written and counted.
place(g, row, col) ==
    [g EXCEPT !.board[PyIdx(row, ROWS)][PyIdx(col, COLS)] = g.current,
              !.move_count = @ + 1]

\* Faulty variants: current flipped after a win too; current never
\* flipped; current not flipped by the move that fills the board.
settle_flips_always(g, row, col) ==
    LET win_span == winning_span(g.board, row, col)
    IN  IF win_span # NoLine
        THEN [g EXCEPT !.winner = g.current, !.win_line = win_span,
                       !.current = 1 - g.current]
        ELSE [g EXCEPT !.current = 1 - g.current]
settle_never_flips(g, row, col) ==
    LET win_span == winning_span(g.board, row, col)
    IN  IF win_span # NoLine
        THEN [g EXCEPT !.winner = g.current, !.win_line = win_span]
        ELSE g
settle_full_keeps_turn(g, row, col) ==
    LET win_span == winning_span(g.board, row, col)
    IN  IF win_span # NoLine
        THEN [g EXCEPT !.winner = g.current, !.win_line = win_span]
        ELSE IF g.move_count = ROWS * COLS THEN g
        ELSE [g EXCEPT !.current = 1 - g.current]

\* Faulty variant: a win sets winner and leaves win_line as it was.
settle_forgets_line(g, row, col) ==
    LET win_span == winning_span(g.board, row, col)
    IN  IF win_span # NoLine
        THEN [g EXCEPT !.winner = g.current]
        ELSE [g EXCEPT !.current = 1 - g.current]

\* The outcome of the move: a win keeps current, anything else flips it.
settle(g, row, col) ==
    LET win_span == winning_span(g.board, row, col)
    IN  IF win_span # NoLine
        THEN [g EXCEPT !.winner = g.current, !.win_line = win_span]
        ELSE [g EXCEPT !.current = 1 - g.current]

\* Connect4.drop: the engine after the call, and the value returned.
drop(g, col) ==
    IF drop_rejects(g, col)
    THEN [g |-> g, ret |-> None]
    ELSE LET row == landing_row(g.board, col)
         IN  [g |-> settle(place(g, row, col), row, col), ret |-> row]

\* ------------------------------------------- the engine of connectk4.py
\* Connect4.__init__ (connectk4.py)
k_Fresh == [board |-> [r \in Rows |-> [c \in Cols |-> NoDisc]],
            current |-> 0, winner |-> None, move_count |-> 0, win_line |-> NoLine]

\* Connect4.reset (connectk4.py)
k_reset(g) == [board |-> [r \in Rows |-> [c \in Cols |-> NoDisc]],
               current |-> 0, winner |-> None, move_count |-> 0,
               win_line |-> NoLine]

\* Connect4.is_draw (connectk4.py)
k_is_draw(g) == g.winner = None /\ g.move_count = ROWS * COLS

\* The directions in the order of connectk4.py's _winning_span.
k_Directions == << <<0, 1>>, <<1, 0>>, <<1, 1>>, <<1, -1>> >>

\* The loop of count_and_last (connectk4.py).
RECURSIVE k_walk(_, _, _, _, _, _, _, _)
k_walk(b, player, rr, cc, dr, dc, n, last) ==
    IF /\ 0 <= rr /\ rr < ROWS
       /\ 0 <= cc /\ cc < COLS
       /\ b[rr][cc] = player
    THEN k_walk(b, player, rr + dr, cc + dc, dr, dc, n + 1, <<rr, cc>>)
    ELSE <<n, last[1], last[2]>>

\* count_and_last (connectk4.py)
k_count_and_last(b, player, r, c, dr, dc) ==
    k_walk(b, player, r + dr, c + dc, dr, dc, 0, <<r, c>>)

\* Faulty variant: the front endpoint reported first.
k_span_front_first(r, c, f, bk) == << <<f[2], f[3]>>, <<bk[2], bk[3]>> >>

\* start = (b_r, b_c), end = (f_r, f_c); return start, end.
k_span_of(r, c, f, bk) == << <<bk[2], bk[3]>>, <<f[2], f[3]>> >>

\* The for loop of _winning_span (connectk4.py), from the i-th direction on.
RECURSIVE k_span_from(_, _, _, _, _)
k_span_from(b, player, r, c, i) ==
    IF i > Len(k_Directions) THEN NoLine
    ELSE LET dr == k_Directions[i][1]
             dc == k_Directions[i][2]
             f  == k_count_and_last(b, player, r, c, dr, dc)
             bk == k_count_and_last(b, player, r, c, 0 - dr, 0 - dc)
             total == 1 + f[1] + bk[1]
         IN  IF total >= 4
             THEN k_span_of(r, c, f, bk)
             ELSE k_span_from(b, player, r, c, i + 1)

\* Connect4._winning_span (connectk4.py)
k_winning_span(b, r, c) ==
    IF At(b, r, c) = NoDisc THEN NoLine
    ELSE k_span_from(b, At(b, r, c), PyIdx(r, ROWS), PyIdx(c, COLS), 1)

\* The two early returns of drop (connectk4.py).
k_drop_rejects(g, col) ==
    \/ g.winner # None
    \/ ~(0 <= col /\ col < COLS)
    \/ At(g.board, 0, col) # NoDisc

\* The while loop of drop (connectk4.py).
RECURSIVE k_scan_row(_, _, _)
k_scan_row(b, col, row) ==
    IF row >= 0 /\ At(b, row, col) # NoDisc
    THEN k_scan_row(b, col, row - 1)
    ELSE row

\* Connect4.drop (connectk4.py): the engine after the call, and the value
\* returned.
k_drop(g, col) ==
    IF k_drop_rejects(g, col)
    THEN [g |-> g, ret |-> None]
    ELSE LET row == k_scan_row(g.board, col, ROWS - 1)
             put == [g EXCEPT !.board[PyIdx(row, ROWS)][PyIdx(col, COLS)] = g.current,
                              !.move_count = @ + 1]
             win_span == k_winning_span(put.board, row, col)
         IN  [g |-> IF win_span # NoLine
                    THEN [put EXCEPT !.winner = put.current, !.win_line = win_span]
                    ELSE [put EXCEPT !.current = 1 - put.current],
              ret |-> row]


\* ------------------------------------------------- starting positions
\* Recorded games, each a sequence of column arguments given to drop on a
\* freshly constructed engine.  The exploration starts from the position
\* each one leads to; the empty game is the engine as constructed.
Openings ==
    { <<>>,
      <<0, 0, 1, 1, 2, 2, 4, 4, 5, 5, 6, 6>>,
      <<4, 2, 4, 3, 4>>,
      <<0, 1, 3, 2, 1, 2, 3, 6, 2>>,
      <<0, 2, 2, 4, 3, 1, 4, 3, 2, 2, 1, 4, 4, 3, 4>>,
      <<6, 4, 4, 6, 1, 0, 2, 4, 0, 1, 2, 1, 3, 2, 0, 1, 3, 2, 3, 0>>,
      <<1, 3, 5, 2, 2, 4, 1, 4, 1, 4, 6, 3, 5, 2, 4, 4, 2, 3, 3>>,
      <<4, 2, 3, 5, 3, 2, 0, 3, 3, 4, 5, 2>>,
      <<2, 1, 1, 5, 5, 5, 5, 3, 6, 2, 3, 3, 3, 4, 0>>,
      <<3, 4, 5, 4, 5, 4, 2, 3, 5, 0, 4, 5, 2, 3, 1, 2, 5, 4, 2, 1, 2, 5>>,
      <<4, 3, 6, 0, 1, 4, 5, 5, 1, 1, 5, 0, 1, 6, 0, 1, 5, 5, 1, 0, 4, 6,
        3, 2, 6, 6, 0, 4, 6, 5, 2, 0, 4, 2, 4, 2, 2, 2, 3, 3>>,
      <<4, 5, 6, 4, 4, 4, 3, 4, 1, 2, 3, 2, 5, 3, 0, 6, 1, 1, 4, 6, 0, 2,
        2, 3, 0, 5, 6, 0, 3, 1, 1, 0, 0, 5, 3, 6, 1, 2, 6, 2>> }

\* One call of drop in a recorded game: st is the engine with the history
\* variables pre and placed and the call's record.
played(st, col) ==
    LET d == drop(st.g, col)
    IN  [g      |-> d.g,
         pre    |-> st.g,
         call   |-> [op |-> "drop", col |-> col, ret |-> d.ret],
         placed |-> IF d.ret = None THEN st.placed ELSE <<d.ret, col>>]

\* The engine as constructed, before any call.
Constructed ==
    [g |-> Fresh, pre |-> Fresh,
     call |-> [op |-> "init", col |-> None, ret |-> None],
     placed |-> NoCell]

\* A recorded game replayed from its i-th call on, st being the position
\* before that call.  A recorded game holds accepted drops only.
RECURSIVE replay(_, _, _)
replay(st, cols, i) ==
    IF i > Len(cols) THEN st
    ELSE LET next == played(st, cols[i])
         IN  IF next.call.ret = None THEN st ELSE replay(next, cols, i + 1)

\* One call of drop on the engine of connectk4.py, with its history.
k_played(kst, col) ==
    LET d == k_drop(kst.g, col)
    IN  [g    |-> d.g,
         pre  |-> kst.g,
         call |-> [op |-> "drop", col |-> col, ret |-> d.ret]]

\* The engine of connectk4.py as constructed, before any call.
k_Constructed ==
    [g |-> k_Fresh, pre |-> k_Fresh,
     call |-> [op |-> "init", col |-> None, ret |-> None]]

\* A recorded game replayed on the engine of connectk4.py.
RECURSIVE k_replay(_, _, _)
k_replay(kst, cols, i) ==
    IF i > Len(cols) THEN kst
    ELSE LET next == k_played(kst, cols[i])
         IN  IF next.call.ret = None THEN kst ELSE k_replay(next, cols, i + 1)

\* The engine of connectk4.py, its last call and its fields before it.
KInstall(kst) ==
    /\ kgame' = kst.g
    /\ kcall' = kst.call
    /\ kpre' = kst.pre

\* The console loop's variables.
consoleVars == <<turns, pc>>
\* The first engine copy and its history.
engineVars == <<board, current, winner, move_count, win_line, call, pre, placed>>
\* The second engine copy and its history.
kVars == <<kgame, kcall, kpre>>

\* ------------------------------------------------------------ the actions
Install(st) ==
    /\ board' = st.g.board
    /\ current' = st.g.current
    /\ winner' = st.g.winner
    /\ move_count' = st.g.move_count
    /\ win_line' = st.g.win_line
    /\ call' = st.call
    /\ pre' = st.pre
    /\ placed' = st.placed

Init ==
    \E o \in Openings :
        LET st == replay(Constructed, o, 1)
        IN  /\ board = st.g.board
            /\ current = st.g.current
            /\ winner = st.g.winner
            /\ move_count = st.g.move_count
            /\ win_line = st.g.win_line
            /\ call = st.call
            /\ pre = st.pre
            /\ placed = st.placed
            /\ drops = 0
            /\ LET kst == k_replay(k_Constructed, o, 1)
               IN  /\ kgame = kst.g
                   /\ kcall = kst.call
                   /\ kpre = kst.pre
            /\ turns = 0
            /\ pc = "prompt"

\* game.drop(col), for any integer col a front end can pass.
Drop(col) ==
    LET st == played([g |-> Game, placed |-> placed], col)
    IN  /\ st.call.ret # None => drops < MaxDrops
        /\ Install(st)
        /\ drops' = IF st.call.ret # None THEN drops + 1 ELSE drops
        /\ KInstall(k_played([g |-> kgame], col))
        /\ UNCHANGED consoleVars

\* game.reset()
Reset ==
    /\ Install([g |-> reset(Game), pre |-> Game,
                call |-> [op |-> "reset", col |-> None, ret |-> None],
                placed |-> NoCell])
    /\ KInstall([g |-> k_reset(kgame), pre |-> kgame,
                 call |-> [op |-> "reset", col |-> None, ret |-> None]])
    /\ UNCHANGED <<drops, consoleVars>>

\* game.is_draw()
IsDraw ==
    /\ Install([g |-> Game, pre |-> Game,
                call |-> [op |-> "is_draw", col |-> None, ret |-> is_draw(Game)],
                placed |-> placed])
    /\ KInstall([g |-> kgame, pre |-> kgame,
                 call |-> [op |-> "is_draw", col |-> None, ret |-> k_is_draw(kgame)]])
    /\ UNCHANGED <<drops, consoleVars>>

Next ==
    \/ \E col \in ColArgs : Drop(col)
    \/ Reset
    \/ IsDraw

Spec == Init /\ [][Next]_vars

\* --------------------------------------------- the console (connect4.py)
\* What the player types at the prompt, after strip(): a quit word, text
\* that is no number, or a number.
RawInputs ==
    {[kind |-> "quit", n |-> None], [kind |-> "text", n |-> None]}
    \cup {[kind |-> "int", n |-> k] : k \in (1 - OutOfRange) .. (COLS + OutOfRange)}

\* prompt_column on one line of input: quit (None), ask again, or the
\* zero-based column of the one-based number typed.
prompt_column(raw) ==
    IF raw.kind = "quit" THEN [kind |-> "quit", col |-> None]
    ELSE IF raw.kind = "text" THEN [kind |-> "retry", col |-> None]
    ELSE IF ~(1 <= raw.n /\ raw.n <= COLS) THEN [kind |-> "retry", col |-> None]
    ELSE [kind |-> "col", col |-> raw.n - 1]

\* Faulty variant: a landing row of 0 taken for a refusal (not row).
drop_refused_falsy(row) == row = None \/ row = 0

\* if row is None
drop_refused(row) == row = None

\* The rest of a pass of the while loop once drop has returned: st is the
\* engine after the call, with its history.
after_drop(cs, st) ==
    IF drop_refused(st.call.ret)
    THEN [g |-> st.g, pre |-> st.pre, call |-> st.call,
          placed |-> st.placed, turns |-> cs.turns, pc |-> "prompt"]
    ELSE [g |-> st.g, pre |-> st.pre, call |-> st.call,
          placed |-> st.placed, turns |-> cs.turns + 1,
          pc |-> IF st.g.winner # None THEN "won"
                 ELSE IF is_draw(st.g) THEN "draw"
                 ELSE "prompt"]

\* What prompt_column's answer p leads to.
after_prompt(cs, p) ==
    IF p.kind = "quit"
    THEN [cs EXCEPT !.pc = "exit", !.pre = cs.g,
                    !.call = [op |-> "quit", col |-> None, ret |-> None]]
    ELSE IF p.kind = "retry"
    THEN [cs EXCEPT !.pre = cs.g,
                    !.call = [op |-> "reprompt", col |-> None, ret |-> None]]
    ELSE after_drop(cs, played(cs, p.col))

\* One pass of the while loop on one line of input.  cs holds the engine,
\* its history, turns and the loop's position pc: "prompt" while the loop
\* runs, "won" or "draw" after a break, "exit" after sys.exit(0).
console_iteration(cs, raw) == after_prompt(cs, prompt_column(raw))

\* The console as started: game = Connect4(), turns = 0.
ConsoleStarted ==
    [g |-> Fresh, pre |-> Fresh,
     call |-> [op |-> "init", col |-> None, ret |-> None],
     placed |-> NoCell, turns |-> 0, pc |-> "prompt"]

\* A recorded game typed at the prompt, one-based, from its i-th line on.
RECURSIVE console_replay(_, _, _)
console_replay(cs, cols, i) ==
    IF i > Len(cols) THEN cs
    ELSE LET next == console_iteration(cs, [kind |-> "int", n |-> cols[i] + 1])
         IN  IF next.pc # "prompt" THEN next
             ELSE console_replay(next, cols, i + 1)

ConsoleInit ==
    \E o \in Openings :
        LET cs == console_replay(ConsoleStarted, o, 1)
        IN  /\ board = cs.g.board
            /\ current = cs.g.current
            /\ winner = cs.g.winner
            /\ move_count = cs.g.move_count
            /\ win_line = cs.g.win_line
            /\ call = cs.call
            /\ pre = cs.pre
            /\ placed = cs.placed
            /\ turns = cs.turns
            /\ pc = cs.pc
            /\ drops = 0
            /\ kgame = k_Constructed.g
            /\ kcall = k_Constructed.call
            /\ kpre = k_Constructed.pre

\* The player types a line at the prompt.
ConsoleInput(raw) ==
    /\ pc = "prompt"
    /\ LET cs == console_iteration([g |-> Game, pre |-> pre, call |-> call,
                                    placed |-> placed, turns |-> turns, pc |-> pc],
                                   raw)
           accepted == cs.call.op = "drop" /\ cs.call.ret # None
       IN  /\ accepted => drops < MaxDrops
           /\ Install(cs)
           /\ turns' = cs.turns
           /\ pc' = cs.pc
           /\ drops' = IF accepted THEN drops + 1 ELSE drops
    /\ UNCHANGED kVars

\* except KeyboardInterrupt
ConsoleInterrupt ==
    /\ pc = "prompt"
    /\ pc' = "interrupted"
    /\ UNCHANGED <<engineVars, kVars, turns, drops>>

ConsoleNext ==
    \/ \E raw \in RawInputs : ConsoleInput(raw)
    \/ ConsoleInterrupt

SpecConsole == ConsoleInit /\ [][ConsoleNext]_vars

\* ------------------------------------------- the window (connectk4.py)
\* The width of a cell in pixels.
CELL == 80

\* The horizontal pixel positions tried by clicks: the first and the last
\* pixel of every column, and of the widths just left and right of the board.
XArgs ==
    { c * CELL + o : c \in (0 - OutOfRange) .. (COLS - 1 + OutOfRange),
                     o \in {0, CELL - 1} }

\* Faulty variant: the position rounded to the nearest column edge.
click_col_rounded(x) == (x + CELL \div 2) \div CELL

\* col = event.x // CELL
click_col(x) == x \div CELL

\* App.on_click at horizontal position x: kst is App.game with its history.
on_click(kst, x) ==
    IF kst.g.winner # None \/ k_is_draw(kst.g)
    THEN [g |-> kst.g, pre |-> kst.g,
          call |-> [op |-> "click", x |-> x, col |-> None, ret |-> None]]
    ELSE LET d == k_drop(kst.g, click_col(x))
         IN  [g |-> d.g, pre |-> kst.g,
              call |-> [op |-> "click", x |-> x, col |-> click_col(x),
                        ret |-> d.ret]]

\* App.new_game
new_game(kst) ==
    [g |-> k_reset(kst.g), pre |-> kst.g,
     call |-> [op |-> "new_game", x |-> None, col |-> None, ret |-> None]]

\* The window as opened: self.game = Connect4().
AppOpened ==
    [g |-> k_Fresh, pre |-> k_Fresh,
     call |-> [op |-> "init", x |-> None, col |-> None, ret |-> None]]

\* A recorded game clicked in the middle of its columns, from its i-th
\* click on.
RECURSIVE app_replay(_, _, _)
app_replay(kst, cols, i) ==
    IF i > Len(cols) THEN kst
    ELSE LET next == on_click(kst, cols[i] * CELL + CELL \div 2)
         IN  IF next.call.ret = None THEN kst ELSE app_replay(next, cols, i + 1)

AppInit ==
    \E o \in Openings :
        /\ LET kst == app_replay(AppOpened, o, 1)
           IN  /\ kgame = kst.g
               /\ kcall = kst.call
               /\ kpre = kst.pre
        /\ board = Constructed.g.board
        /\ current = Constructed.g.current
        /\ winner = Constructed.g.winner
        /\ move_count = Constructed.g.move_count
        /\ win_line = Constructed.g.win_line
        /\ call = Constructed.call
        /\ pre = Constructed.pre
        /\ placed = Constructed.placed
        /\ drops = 0
        /\ turns = 0
        /\ pc = "prompt"

\* A click on the canvas at horizontal position x.
Click(x) ==
    /\ LET kst == on_click([g |-> kgame], x)
       IN  /\ kst.call.ret # None => drops < MaxDrops
           /\ KInstall(kst)
           /\ drops' = IF kst.call.ret # None THEN drops + 1 ELSE drops
    /\ UNCHANGED <<engineVars, consoleVars>>

\* The New Game button.
NewGame ==
    /\ KInstall(new_game([g |-> kgame]))
    /\ UNCHANGED <<engineVars, consoleVars, drops>>

AppNext ==
    \/ \E x \in XArgs : Click(x)
    \/ NewGame

SpecApp == AppInit /\ [][AppNext]_vars

\* ------------------------------------------------ vocabulary of the claims
\* The last call was a drop, and it was accepted.
Accepted == call.op = "drop" /\ call.ret # None
\* The last call was a drop, and it was rejected.
Rejected == call.op = "drop" /\ call.ret = None

\* The four line directions, as the claims name them.
Horizontal == <<0, 1>>
Vertical == <<1, 0>>
Diagonal == <<1, 1>>
AntiDiagonal == <<1, -1>>
FourDirections == {Horizontal, Vertical, Diagonal, AntiDiagonal}
DirectionOrder == <<Horizontal, Vertical, Diagonal, AntiDiagonal>>

\* The cell k steps from cell in direction d.
Step(cell, d, k) == <<cell[1] + k * d[1], cell[2] + k * d[2]>>
\* Cell is on the board and holds a disc of player p.
Owned(b, p, cell) == cell[1] \in Rows /\ cell[2] \in Cols /\ b[cell[1]][cell[2]] = p
\* The offsets k such that every cell from cell to Step(cell, d, k) is p's.
RunOffsets(b, p, cell, d) ==
    { k \in (0 - COLS) .. COLS :
        \A j \in (IF k < 0 THEN k .. 0 ELSE 0 .. k) : Owned(b, p, Step(cell, d, j)) }
RunLength(b, p, cell, d) == Cardinality(RunOffsets(b, p, cell, d))
SetMax(S) == CHOOSE x \in S : \A y \in S : y <= x
SetMin(S) == CHOOSE x \in S : \A y \in S : x <= y
\* The two ends of the run of p's cells through cell in direction d.
RunEnds(b, p, cell, d) ==
    { Step(cell, d, SetMin(RunOffsets(b, p, cell, d))),
      Step(cell, d, SetMax(RunOffsets(b, p, cell, d))) }
\* The cells with a disc.
Discs(b) == { cell \in Rows \X Cols : b[cell[1]][cell[2]] # NoDisc }

\* ------------------------------------------------------------------ claims

\* C1: a drop into a column whose top cell is empty, with no winner, returns
\* the lowest empty row of that column, writes the mover's marker there and
\* changes no other cell.
C1_DropLandsOnLowestEmptyRow ==
    ( /\ call.op = "drop"
      /\ pre.winner = None
      /\ call.col \in Cols
      /\ pre.board[0][call.col] = NoDisc )
    => /\ call.ret \in Rows
       /\ pre.board[call.ret][call.col] = NoDisc
       /\ \A r \in Rows : r > call.ret => pre.board[r][call.col] # NoDisc
       /\ board[call.ret][call.col] = pre.current
       /\ \A r \in Rows, c \in Cols :
            <<r, c>> # <<call.ret, call.col>> => board[r][c] = pre.board[r][c]

\* A disc of player 1 has just landed on top of three others.
C1_Witness ==
    /\ call.op = "drop"
    /\ pre.winner = None
    /\ call.col \in Cols
    /\ pre.board[0][call.col] = NoDisc
    /\ pre.current = 1
    /\ call.ret = ROWS - 4
    /\ board[call.ret][call.col] = 1
    /\ drops > 0

\* C2: drop returns None and leaves every field unchanged when a winner is
\* set, when col is outside [0, COLS), and when the column's top cell is
\* occupied.
C2_RejectedDropChangesNothing ==
    ( /\ call.op = "drop"
      /\ \/ pre.winner # None
         \/ call.col \notin Cols
         \/ pre.board[0][call.col] # NoDisc )
    => /\ call.ret = None
       /\ Game = pre

\* A drop into a column with room, refused only because the game is won.
C2_Witness ==
    /\ call.op = "drop"
    /\ pre.winner # None
    /\ call.col \in Cols
    /\ pre.board[0][call.col] = NoDisc
    /\ call.ret = None

\* C3: gravity: in no column is there an empty cell below an occupied one.
C3_Gravity ==
    \A c \in Cols : \A r \in Rows :
        board[r][c] # NoDisc => \A below \in Rows : below > r => board[below][c] # NoDisc

\* A column holding a stack of at least three discs under an empty cell.
C3_Witness ==
    \E c \in Cols :
        /\ board[ROWS - 3][c] # NoDisc
        /\ board[0][c] = NoDisc
        /\ call.op = "drop"
        /\ call.col = c
        /\ call.ret = ROWS - 3
        /\ drops > 0

\* C4: a drop completing a line of four makes its mover the winner and
\* does not advance current; whenever a winner is set, current is the
\* winner and the last placed disc is the winner's.
C4_WinnerIsMoverAndKeepsTurn ==
    /\ winner # None =>
         /\ current = winner
         /\ placed # NoCell
         /\ board[placed[1]][placed[2]] = winner
    /\ ( /\ Accepted
         /\ \E d \in FourDirections :
              RunLength(board, pre.current, <<call.ret, call.col>>, d) >= 4 )
       => /\ winner = pre.current
          /\ current = pre.current

\* Player 1 has just won.
C4_Witness ==
    /\ Accepted
    /\ pre.winner = None
    /\ pre.current = 1
    /\ winner = 1
    /\ drops > 0

\* C5: a win line runs from start to end along one of the four directions,
\* all its cells are the winner's, it has at least 4 cells, it contains the
\* cell of the winning drop, and it is maximal.
C5_WinLineIsMaximalRun ==
    win_line # NoLine =>
        \E d \in FourDirections : \E n \in 3 .. COLS :
            /\ win_line[2] = Step(win_line[1], d, n)
            /\ \A j \in 0 .. n : Owned(board, winner, Step(win_line[1], d, j))
            /\ \E j \in 0 .. n : placed = Step(win_line[1], d, j)
            /\ ~Owned(board, winner, Step(win_line[1], d, 0 - 1))
            /\ ~Owned(board, winner, Step(win_line[1], d, n + 1))

\* A win line of more than four cells whose winning disc is not at an end.
C5_Witness ==
    /\ win_line # NoLine
    /\ \E d \in FourDirections : \E n \in 4 .. COLS :
         /\ win_line[2] = Step(win_line[1], d, n)
         /\ placed # win_line[1]
         /\ placed # win_line[2]

\* The positions, in the order of the claims, of the directions in which
\* the disc just dropped lies in a run of at least 4 of its owner's cells.
Qualifying ==
    { i \in 1 .. 4 :
        RunLength(board, pre.current, <<call.ret, call.col>>, DirectionOrder[i]) >= 4 }

\* C6: when a drop completes runs of at least 4 in more than one direction,
\* the win line is the run of the first qualifying direction in the order
\* horizontal, vertical, diagonal (1,1), diagonal (1,-1).
C6_FirstQualifyingDirectionReported ==
    (Accepted /\ Cardinality(Qualifying) >= 2)
    => /\ win_line # NoLine
       /\ {win_line[1], win_line[2]} =
            RunEnds(board, pre.current, <<call.ret, call.col>>,
                    DirectionOrder[SetMin(Qualifying)])

\* A drop has completed a vertical run and a diagonal run, and no
\* horizontal one.
C6_Witness ==
    /\ Accepted
    /\ drops > 0
    /\ 1 \notin Qualifying
    /\ 2 \in Qualifying
    /\ Cardinality(Qualifying) >= 2

\* The scenario of C7: the mover owns (5,0), (4,1), (3,2) and the disc
\* just dropped landed at (2,3).
C7_Scenario ==
    /\ Accepted
    /\ call.ret = 2
    /\ call.col = 3
    /\ pre.winner = None
    /\ pre.board[5][0] = pre.current
    /\ pre.board[4][1] = pre.current
    /\ pre.board[3][2] = pre.current

\* The win line lies along direction d.
LineAlong(d) ==
    /\ win_line # NoLine
    /\ \E n \in 1 .. COLS :
         \/ win_line[2] = Step(win_line[1], d, n)
         \/ win_line[1] = Step(win_line[2], d, n)

\* C7 as stated: in the scenario the win's endpoints are (5,0) and (2,3)
\* and the line is found in direction (1,1), the third direction.
C7_FoundInDirectionOneOne ==
    C7_Scenario
    => /\ winner = pre.current
       /\ win_line # NoLine
       /\ {win_line[1], win_line[2]} = {<<5, 0>>, <<2, 3>>}
       /\ LineAlong(Diagonal)

\* C7 amended: in the scenario the mover wins; unless an earlier direction
\* (horizontal, vertical, diagonal (1,1)) also has a run of 4 through (2,3),
\* the line is found in direction (1,-1), the fourth direction, and runs
\* from the upper right end of the run ((2,3), or (1,4) or (0,5) when the
\* cells up to there are the mover's too) to (5,0).
C7_FoundInDirectionOneMinusOne ==
    C7_Scenario
    => /\ winner = pre.current
       /\ win_line # NoLine
       /\ Qualifying \cap {1, 2, 3} = {}
          => /\ LineAlong(AntiDiagonal)
             /\ ~LineAlong(Diagonal)
             /\ win_line[2] = <<5, 0>>
             /\ win_line[1] = IF board[1][4] # pre.current THEN <<2, 3>>
                              ELSE IF board[0][5] # pre.current THEN <<1, 4>>
                              ELSE <<0, 5>>

\* The scenario, with a win in no other direction and (1,4) not the mover's.
C7_Witness ==
    /\ C7_Scenario
    /\ drops > 0
    /\ Qualifying = {4}
    /\ win_line = << <<2, 3>>, <<5, 0>> >>

\* C8: after an accepted drop that neither wins nor fills the board,
\* current is 1 minus its value before the drop; current is always 0 or 1.
C8_TurnFlipsAfterNonTerminalMove ==
    /\ current \in Players
    /\ (Accepted /\ winner = None /\ move_count # ROWS * COLS)
       => current = 1 - pre.current

\* Player 1 has just made a move that ends nothing.
C8_Witness ==
    /\ Accepted
    /\ drops > 0
    /\ winner = None
    /\ move_count # ROWS * COLS
    /\ pre.current = 1
    /\ current = 0

\* C9 as stated: current changes only by an accepted drop that neither wins
\* nor fills the board; the move that fills the board without a line, a
\* winning drop, a rejected drop and is_draw leave it as it was.
C9_TurnKeptByDrawMove ==
    (call.op \in {"drop", "is_draw"})
    => ( current # pre.current
         <=> (Accepted /\ winner = None /\ move_count # ROWS * COLS) )

\* C9 amended: current flips after every accepted drop that does not win,
\* the one that fills the board included; a winning drop, a rejected drop
\* and is_draw leave it as it was.
C9_TurnFlipsUnlessWin ==
    (call.op \in {"drop", "is_draw"})
    => /\ current # pre.current <=> (Accepted /\ winner = None)
       /\ (Accepted /\ winner = None /\ move_count = ROWS * COLS)
          => current = 1 - pre.current

\* The move that fills the board without a line has just been made.
C9_Witness ==
    /\ Accepted
    /\ drops > 0
    /\ winner = None
    /\ move_count = ROWS * COLS
    /\ current = 1 - pre.current

\* C10: move_count is the number of discs on the board: an accepted drop
\* adds one to both, a rejected drop adds to neither, reset zeroes both.
C10_MoveCountIsDiscCount ==
    /\ move_count = Cardinality(Discs(board))
    /\ Accepted => move_count = pre.move_count + 1
    /\ Rejected => move_count = pre.move_count
    /\ call.op = "reset" => move_count = 0

\* A reset of a board with discs on it.
C10_Witness ==
    /\ call.op = "reset"
    /\ pre.move_count > 0
    /\ Cardinality(Discs(pre.board)) = pre.move_count
    /\ move_count = 0

\* Some four cells in a row, in one of the four directions, hold discs of
\* one player.
HasFour(b) ==
    \E cell \in Rows \X Cols : \E d \in FourDirections :
        /\ b[cell[1]][cell[2]] # NoDisc
        /\ \A j \in 1 .. 3 : Owned(b, b[cell[1]][cell[2]], Step(cell, d, j))
\* Every cell holds a disc.
Full(b) == Discs(b) = Rows \X Cols
\* The columns with room.
OpenColumns(b) == { c \in Cols : b[0][c] = NoDisc }

\* C11: reset gives the constructor's fresh state from any state; a second
\* reset changes nothing more; after it a drop is accepted in every column.
C11_ResetGivesFreshState ==
    call.op = "reset"
    => /\ board = [r \in Rows |-> [c \in Cols |-> NoDisc]]
       /\ current = 0
       /\ winner = None
       /\ win_line = NoLine
       /\ move_count = 0
       /\ Game = Fresh
       /\ reset(Game) = Game
       /\ \A c \in Cols : drop(Game, c).ret = ROWS - 1

\* A won game has just been reset.
C11_Witness ==
    /\ call.op = "reset"
    /\ pre.winner # None
    /\ pre.win_line # NoLine
    /\ pre.current = 1
    /\ winner = None

\* C12: once every cell is filled and no line was completed, is_draw() is
\* true, winner is None, and every drop is rejected and changes nothing.
C12_DrawRejectsEveryDrop ==
    /\ (Full(board) /\ ~HasFour(board))
       => /\ is_draw(Game)
          /\ winner = None
          /\ \A c \in ColArgs : drop(Game, c) = [g |-> Game, ret |-> None]
    /\ (Full(pre.board) /\ ~HasFour(pre.board) /\ call.op = "drop")
       => /\ call.ret = None
          /\ Game = pre
    /\ (Full(pre.board) /\ ~HasFour(pre.board) /\ call.op = "is_draw")
       => call.ret

\* A drop on a drawn board has just been rejected.
C12_Witness ==
    /\ Full(pre.board)
    /\ ~HasFour(pre.board)
    /\ pre.winner = None
    /\ call.op = "drop"
    /\ call.col \in Cols
    /\ call.ret = None
    /\ drops > 0

\* C13: is_draw() changes nothing and is true exactly when winner is None
\* and move_count is ROWS*COLS; a game is never both won and drawn; the
\* drop that fills the last cell and completes a line gives a win.
C13_IsDrawIsPureAndExcludesWin ==
    /\ call.op = "is_draw"
       => /\ Game = pre
          /\ call.ret = (pre.winner = None /\ pre.move_count = ROWS * COLS)
    /\ ~(winner # None /\ is_draw(Game))
    /\ ( /\ Accepted
         /\ Full(board)
         /\ \E d \in FourDirections :
              RunLength(board, pre.current, <<call.ret, call.col>>, d) >= 4 )
       => /\ winner = pre.current
          /\ ~is_draw(Game)

\* is_draw() has just answered false on a full board won by its last disc.
C13_Witness ==
    /\ call.op = "is_draw"
    /\ Full(board)
    /\ winner # None
    /\ call.ret = FALSE
    /\ drops > 0

\* C14: winner is None exactly when win_line is None; a winner is 0 or 1;
\* once a winner is set, winner, win_line and the board change only by
\* reset.
C14_OutcomeIsTaggedUnion ==
    /\ winner = None <=> win_line = NoLine
    /\ winner # None => winner \in Players
    /\ (pre.winner # None /\ call.op # "reset")
       => /\ winner = pre.winner
          /\ win_line = pre.win_line
          /\ board = pre.board

\* A call other than reset has been made on a won game.
C14_Witness ==
    /\ pre.winner # None
    /\ pre.win_line # NoLine
    /\ call.op = "drop"
    /\ call.col \in OpenColumns(pre.board)
    /\ winner = pre.winner

\* C15: the engines of connect4.py and connectk4.py, given the same calls,
\* return the same values and are in the same state after every call.
C15_EngineCopiesAgree ==
    /\ kgame = Game
    /\ kcall = call
    /\ kpre = pre

\* Both copies have just reported the same win line of player 1.
C15_Witness ==
    /\ Accepted
    /\ drops > 0
    /\ kcall.op = "drop"
    /\ kcall.ret = call.ret
    /\ winner = 1
    /\ kgame.winner = 1
    /\ win_line # NoLine
    /\ kgame.win_line = win_line

\* C18: while there is no winner, no four cells in a row hold discs of one
\* player, anywhere on the board.
C18_NoUndetectedFour ==
    winner = None => ~HasFour(board)

\* A disc has just made a run of exactly three, and nobody has won.
C18_Witness ==
    /\ Accepted
    /\ drops > 0
    /\ winner = None
    /\ \E d \in FourDirections :
         RunLength(board, pre.current, <<call.ret, call.col>>, d) = 3

\* The discs of player p.
DiscsOf(b, p) == { cell \in Rows \X Cols : b[cell[1]][cell[2]] = p }

\* C19: player 0 has as many discs as player 1 or one more; with no winner
\* current is move_count mod 2; a winner is (move_count - 1) mod 2; the
\* players place discs in turn.
C19_TurnsAlternate ==
    /\ Cardinality(DiscsOf(board, 0)) - Cardinality(DiscsOf(board, 1)) \in {0, 1}
    /\ winner = None => current = move_count % 2
    /\ winner # None => winner = (move_count - 1) % 2
    /\ Accepted => board[call.ret][call.col] = pre.move_count % 2

\* Player 1 has just placed a disc, making the counts equal.
C19_Witness ==
    /\ Accepted
    /\ drops > 1
    /\ board[call.ret][call.col] = 1
    /\ Cardinality(DiscsOf(board, 0)) = Cardinality(DiscsOf(board, 1))

\* C20: move_count never exceeds ROWS*COLS; a game neither won nor drawn
\* has a column whose drop is accepted; an accepted drop raises move_count
\* by one, so ROWS*COLS - move_count falls with every accepted drop and at
\* ROWS*COLS the game is won or drawn.
C20_GameTerminates ==
    /\ move_count \in 0 .. ROWS * COLS
    /\ (winner = None /\ ~is_draw(Game))
       => \E c \in Cols : drop(Game, c).ret # None
    /\ Accepted
       => /\ move_count = pre.move_count + 1
          /\ ROWS * COLS - move_count < ROWS * COLS - pre.move_count
    /\ move_count = ROWS * COLS => (winner # None \/ is_draw(Game))
    /\ (winner # None \/ is_draw(Game))
       => \A c \in ColArgs : drop(Game, c).ret = None

\* An unfinished game with one column left has just had a disc placed.
C20_Witness ==
    /\ Accepted
    /\ drops > 0
    /\ winner = None
    /\ ~is_draw(Game)
    /\ Cardinality(OpenColumns(board)) = 1

\* C16: in the console loop turns equals move_count after every pass: it
\* rises by one on an accepted drop, a landing on row 0 included, and not on
\* a refused one; the count announced with a win is the number of discs;
\* the loop stops at the first win or draw, so drop is never called on a
\* finished game.
C16_TurnsCountDiscsAndLoopStops ==
    /\ turns = move_count
    /\ Accepted => turns = pre.move_count + 1
    /\ Rejected => turns = pre.move_count
    /\ pc = "won" => turns = Cardinality(Discs(board))
    /\ pc = "won" <=> winner # None
    /\ pc = "draw" <=> is_draw(Game)
    /\ call.op = "drop" => (pre.winner = None /\ ~is_draw(pre))

\* The loop has stopped on a win whose disc landed on row 0.
C16_Witness ==
    /\ pc = "won"
    /\ Accepted
    /\ call.ret = 0
    /\ turns = move_count
    /\ drops > 0

\* The column whose pixels hold x, counted from the left edge of the board.
ColumnAt(x) ==
    CHOOSE c \in (0 - OutOfRange - 1) .. (COLS + OutOfRange) :
        c * CELL <= x /\ x < (c + 1) * CELL
\* The window's game is won or drawn.
Terminal(g) == g.winner # None \/ (g.winner = None /\ g.move_count = ROWS * COLS)

\* C17: a click at x on an unfinished game is drop(x // CELL); on a
\* finished game no click changes the engine, and after new_game clicks
\* act again; a click that maps outside [0, COLS) changes nothing.
C17_ClickIsDropUnlessTerminal ==
    /\ (kcall.op = "click" /\ ~Terminal(kpre))
       => [g |-> kgame, ret |-> kcall.ret] = k_drop(kpre, ColumnAt(kcall.x))
    /\ (kcall.op = "click" /\ Terminal(kpre)) => kgame = kpre
    /\ (kcall.op = "click" /\ ColumnAt(kcall.x) \notin Cols) => kgame = kpre
    /\ kcall.op = "new_game"
       => /\ kgame = k_Fresh
          /\ \A x \in XArgs :
               ColumnAt(x) \in Cols => on_click([g |-> kgame], x).call.ret = ROWS - 1

\* A click on a column with room that did nothing, the game being won.
C17_Witness ==
    /\ kcall.op = "click"
    /\ kpre.winner # None
    /\ ColumnAt(kcall.x) \in OpenColumns(kpre.board)
    /\ kgame = kpre
    /\ drops > 0

====
